---- MODULE Spec2Model ----
(***************************************************************************)
(* The game session of frontend/app.js: the module-level state (targetX,   *)
(* attempts, score, animId, lastSim), the controls and displays the        *)
(* handlers read and write, the shoot() invocations in flight and the      *)
(* animation frames they request.  One action per event the browser can    *)
(* deliver: a click on Shoot, Reset or New Target, an edit of the          *)
(* target-radius control, the answer to a simulate request, an animation   *)
(* frame.  Lengths are in metres; radii are in tenths of a metre.          *)
(***************************************************************************)
EXTENDS Integers, Sequences, FiniteSets, TLC

\* ---- bounds of the model ----
MaxLive == 1       \* shoot() invocations alive at the same time

\* ---- program constants ----
attemptsMax == 5
DefaultRange == 50
UsableCap == 80
DefaultRadius == 15
PointsPerHit == 10
BONUS_ZONES == <<5, 10, 15>>

\* ---- inputs ----
Slots == 1..MaxLive
\* Math.random(), in hundredths
Draws == {0, 99}
Ranges == {100}
\* simulation.x.length: the shortest trajectory and one of several frames
SampleCounts == {1, 3}
Empty == -1
RadiusValues == {Empty, 10}
Multipliers == {2}
MissDistances == {3}

NoResult == [present |-> FALSE, hit |-> FALSE, score_multiplier |-> 0,
             miss_distance |-> 0, hasMessage |-> FALSE]
HitResults == {[present |-> TRUE, hit |-> TRUE, score_multiplier |-> m,
                miss_distance |-> 0, hasMessage |-> TRUE] : m \in Multipliers}
MissResults == {[present |-> TRUE, hit |-> FALSE, score_multiplier |-> 0,
                 miss_distance |-> d, hasMessage |-> h] :
                 d \in MissDistances, h \in BOOLEAN}
Results == {NoResult} \cup HitResults \cup MissResults

NoRes == [N |-> 0, range |-> 0, result |-> NoResult]
Responses == [N : SampleCounts, range : Ranges, result : Results]

\* lastSim keeps the response; simulation.stats.range is all that is read from it
NoSim == [range |-> -1]
NoFrame == <<0, 0>>
Static == -1
NullTarget == -1
NoPayload == [target_x |-> -1, target_radius |-> 0, bonus_zones |-> <<>>]
IdleSlot == [pc |-> "idle", payload |-> NoPayload, res |-> NoRes, i |-> 0]

Banner(kind, d) == [kind |-> kind, d |-> d]
Dash == Banner("dash", 0)
NoClick == [attempts |-> -1, score |-> -1]

\* targetX, attempts, score, animId, lastSim: the module-level variables of app.js
\* radiusEl: the value of the target-radius control (Empty: the empty string)
\* resultEl: the banner; scoreMultiplierEl: the displayed multiplier
\* canvas: the sample index of the projectile in the last drawing, Static when the
\*   last drawing was drawStatic alone
\* slots: the shoot() invocations that are awaiting their response ("fetch") or
\*   their animation ("anim"), with their locals payload and res and the counter i
\*   of their animation; an invocation that returned, threw, or whose animation was
\*   cancelled leaves its slot idle
\* frames: the animation frames requested and not yet run; the frame in which
\*   slot s draws index i has the id <<s, i>>
\* sentSinceReset: simulate requests sent since the last resetGame
\* uncaught: an invocation of shoot() has ended in an uncaught exception
\* clicked: per pending request, attempts and score as they were at its Shoot click
VARIABLES targetX, attempts, score, animId, lastSim,
          radiusEl, resultEl, scoreMultiplierEl, canvas,
          slots, frames, sentSinceReset, uncaught, clicked

vars == <<targetX, attempts, score, animId, lastSim,
          radiusEl, resultEl, scoreMultiplierEl, canvas,
          slots, frames, sentSinceReset, uncaught, clicked>>

\* ---- pure functions ----
Min(a, b) == IF a < b THEN a ELSE b

Abs(a) == IF a < 0 THEN -a ELSE a

\* Math.floor(usable * 0.4 + Math.random() * usable * 0.4), Math.random() = k / 100
NewTargetX(expectedRange, k) ==
    LET usable == Min(expectedRange, UsableCap)
    IN  (usable * 4 * 100 + k * usable * 4) \div 1000

\* Number(radiusEl.value || 1.5)
TargetRadius(v) == IF v = Empty THEN DefaultRadius ELSE v

GameOver_late(att) == att > attemptsMax

GameOver(att) == att >= attemptsMax

LoopContinues_late(i, N) == i <= N

LoopContinues(i, N) == i < N

Points_flat(multiplier) == PointsPerHit

Points(multiplier) == PointsPerHit * multiplier

Live(s) == slots[s].pc \in {"fetch", "anim"}

\* cancelAnimationFrame(id): the frame is dropped, the animation that asked for it
\* never runs again and its promise never resolves
CancelFrames(id) == frames \ {id}

CancelSlots(id) ==
    [s \in Slots |-> IF id \in frames /\ id[1] = s THEN IdleSlot ELSE slots[s]]

\* the slot a new invocation of shoot() takes: the lowest one holding no live invocation
FreeSlot(s) == ~Live(s) /\ \A t \in Slots : t < s => Live(t)

Payload == [target_x |-> targetX,
            target_radius |-> TargetRadius(radiusEl),
            bonus_zones |-> BONUS_ZONES]

\* ---- initial state: the module-level initialisers, then resetGame(true), drawStatic() ----
Init ==
    /\ \E k \in Draws : targetX = NewTargetX(DefaultRange, k)
    /\ attempts = 0
    /\ score = 0
    /\ animId = NoFrame
    /\ lastSim = NoSim
    /\ radiusEl = Empty
    /\ resultEl = Dash
    /\ scoreMultiplierEl = Empty
    /\ canvas = Static
    /\ slots = [s \in Slots |-> IdleSlot]
    /\ frames = {}
    /\ sentSinceReset = 0
    /\ uncaught = FALSE
    /\ clicked = [s \in Slots |-> NoClick]

\* ---- shoot(), lines 371-383: evaluate the result and update the score ----
\* base: the invocations with this one's locals up to date
Evaluate(s, res, base) ==
    IF res.result.present /\ res.result.hit
    THEN /\ scoreMultiplierEl' = res.result.score_multiplier
         /\ score' = score + Points(res.result.score_multiplier)
         /\ resultEl' = Banner("message", 0)
         /\ slots' = [base EXCEPT ![s] = IdleSlot]
         /\ uncaught' = uncaught
    ELSE IF ~res.result.present
         \* res.result.message on an undefined res.result: TypeError, the
         \* invocation's promise rejects and nothing after line 379 runs
         THEN /\ slots' = [base EXCEPT ![s] = IdleSlot]
              /\ uncaught' = TRUE
              /\ UNCHANGED <<score, resultEl, scoreMultiplierEl>>
         ELSE /\ resultEl' = IF res.result.hasMessage
                             THEN Banner("message", 0)
                             ELSE Banner("missed", res.result.miss_distance)
              /\ scoreMultiplierEl' = 0
              /\ score' = score
              /\ slots' = [base EXCEPT ![s] = IdleSlot]
              /\ uncaught' = uncaught

\* ---- animateTrajectory's loop closure, one run of it, and what follows its resolve() ----
\* i: the closure's counter before the run; pending, base: frames and invocations
\* once the caller's cancelAnimationFrame has acted
Loop(s, res, i, pending, base) ==
    /\ canvas' = Min(i, res.N - 1)
    /\ IF LoopContinues(i + 1, res.N)
       THEN /\ animId' = <<s, i + 1>>
            /\ frames' = pending \cup {<<s, i + 1>>}
            /\ slots' = [base EXCEPT ![s].pc = "anim", ![s].res = res, ![s].i = i + 1]
            /\ UNCHANGED <<score, resultEl, scoreMultiplierEl, uncaught>>
       ELSE /\ animId' = animId
            /\ frames' = pending
            /\ Evaluate(s, res, base)

\* ---- click on Shoot: shoot() up to its first await ----
Refuse_counts ==
    /\ resultEl' = Banner("gameover", 0)
    /\ attempts' = attempts + 1
    /\ UNCHANGED <<targetX, score, animId, lastSim, radiusEl,
                   scoreMultiplierEl, canvas, slots, frames, sentSinceReset, uncaught>>

Refuse ==
    /\ resultEl' = Banner("gameover", 0)
    /\ UNCHANGED <<targetX, attempts, score, animId, lastSim, radiusEl,
                   scoreMultiplierEl, canvas, slots, frames, sentSinceReset, uncaught>>

Shoot ==
    IF GameOver(attempts)
    THEN Refuse
    ELSE \E s \in Slots :
         /\ FreeSlot(s)
         /\ attempts' = attempts + 1
         /\ resultEl' = Dash
         /\ slots' = [slots EXCEPT ![s] =
                        [pc |-> "fetch", payload |-> Payload, res |-> NoRes, i |-> 0]]
         /\ sentSinceReset' = sentSinceReset + 1
         /\ UNCHANGED <<targetX, score, animId, lastSim, radiusEl,
                        scoreMultiplierEl, canvas, frames, uncaught>>

\* ---- the request fails: fetch rejects, r.json() rejects or the response is not OK ----
ResponseFail(s) ==
    /\ slots[s].pc = "fetch"
    /\ resultEl' = Banner("apierror", 0)
    /\ slots' = [slots EXCEPT ![s] = IdleSlot]
    /\ UNCHANGED <<targetX, attempts, score, animId, lastSim, radiusEl,
                   scoreMultiplierEl, canvas, frames, sentSinceReset, uncaught>>

\* ---- an OK response arrives: shoot() from line 352 to the await of line 369, and,
\* when the animation resolves at once, on to the end ----
ResponseOk(s, res) ==
    /\ slots[s].pc = "fetch"
    /\ lastSim' = [range |-> res.range]
    /\ IF attempts = 1
       THEN \E k \in Draws : targetX' = NewTargetX(res.range, k)
       ELSE targetX' = targetX
    /\ Loop(s, res, 0, CancelFrames(animId), CancelSlots(animId))
    /\ UNCHANGED <<attempts, radiusEl, sentSinceReset>>

\* ---- the browser runs a requested animation frame ----
Frame(s) ==
    /\ slots[s].pc = "anim"
    /\ <<s, slots[s].i>> \in frames
    /\ Loop(s, slots[s].res, slots[s].i, frames \ {<<s, slots[s].i>>}, slots)
    /\ UNCHANGED <<targetX, attempts, lastSim, radiusEl, sentSinceReset>>

\* ---- click on Reset: resetGame(false) ----
Reset ==
    /\ frames' = CancelFrames(animId)
    /\ slots' = CancelSlots(animId)
    /\ attempts' = 0
    /\ score' = 0
    /\ resultEl' = Dash
    /\ sentSinceReset' = 0
    /\ IF targetX = NullTarget
       THEN \E k \in Draws : targetX' = NewTargetX(DefaultRange, k)
       ELSE targetX' = targetX
    /\ UNCHANGED <<animId, lastSim, radiusEl, scoreMultiplierEl, canvas, uncaught>>

\* ---- click on New Target ----
NewTargetClick ==
    /\ lastSim # NoSim
    /\ \E k \in Draws : targetX' = NewTargetX(lastSim.range, k)
    /\ canvas' = Static
    /\ UNCHANGED <<attempts, score, animId, lastSim, radiusEl, resultEl,
                   scoreMultiplierEl, slots, frames, sentSinceReset, uncaught>>

\* ---- the player edits the target-radius control ----
SetRadius ==
    /\ \E v \in RadiusValues : radiusEl' = v
    /\ UNCHANGED <<targetX, attempts, score, animId, lastSim, resultEl,
                   scoreMultiplierEl, canvas, slots, frames, sentSinceReset, uncaught>>

\* ---- history: attempts and score as they were when each pending request's Shoot
\* was clicked ----
Tracked ==
    clicked' = [s \in Slots |->
                  IF slots'[s].pc # "fetch" THEN NoClick
                  ELSE IF slots[s].pc # "fetch"
                       THEN [attempts |-> attempts, score |-> score]
                       ELSE clicked[s]]

Untracked == UNCHANGED clicked

\* ---- the session, the target-radius control left as the page loads it ----
Next ==
    \/ Shoot /\ Untracked
    \/ \E s \in Slots : ResponseFail(s) /\ Untracked
    \/ \E s \in Slots, res \in Responses : ResponseOk(s, res) /\ Untracked
    \/ \E s \in Slots : Frame(s) /\ Untracked
    \/ Reset /\ Untracked
    \/ NewTargetClick /\ Untracked

Spec == Init /\ [][Next]_vars

\* ---- the same session with the player editing the target-radius control ----
NextRadius ==
    \/ Next
    \/ SetRadius /\ Untracked

SpecRadius == Init /\ [][NextRadius]_vars

\* ---- the same session with the history of each pending request kept ----
NextHistory ==
    \/ Shoot /\ Tracked
    \/ \E s \in Slots : ResponseFail(s) /\ Tracked
    \/ \E s \in Slots, res \in Responses : ResponseOk(s, res) /\ Tracked
    \/ \E s \in Slots : Frame(s) /\ Tracked
    \/ Reset /\ Tracked
    \/ NewTargetClick /\ Tracked

SpecHistory == Init /\ [][NextHistory]_vars

\* ---- what the formulas below speak of ----
IsHit(r) == r.present /\ r.hit

\* the steps of the invocation in slot s: its response res is handled, its
\* animation frame runs
Leaves(s, pc) == slots[s].pc = pc /\ slots'[s] # slots[s]

\* an animation that goes on keeps the response in its local res
Answered(s, res) ==
    /\ slots'[s].pc = "anim" => slots'[s].res = res
    /\ ResponseOk(s, res)

Drawn(s) == Leaves(s, "anim") /\ Frame(s)

InFortyToEighty(x, expectedRange) ==
    4 * expectedRange <= 10 * x /\ 10 * x <= 8 * expectedRange

WellFormedTarget(payload) ==
    /\ \A i \in 1..(Len(payload.bonus_zones) - 1) :
          payload.bonus_zones[i] < payload.bonus_zones[i + 1]
    /\ \A i \in 1..Len(payload.bonus_zones) :
          payload.bonus_zones[i] <= payload.target_radius

ScoreAfter(r) == IF IsHit(r) THEN score + 10 * r.score_multiplier ELSE score

\* the banner the claim C8 gives a result that is not a hit
MissBanner(res) ==
    IF res.result.present /\ res.result.hasMessage THEN Banner("message", 0)
    ELSE IF res.result.present THEN Banner("missed", res.result.miss_distance)
    ELSE Banner("missed", Abs(res.range - targetX'))

\* C1: when the simulate request of a shoot() call fails, the error is shown in the
\* banner and attempts and score are what they were just before that Shoot click.
C1_FailureConsumesNothing ==
    [][\A s \in Slots : ResponseFail(s) =>
          /\ resultEl'.kind = "apierror"
          /\ attempts' = clicked[s].attempts
          /\ score' = clicked[s].score]_vars

\* C2: applying a result adds 10 * result.score_multiplier to score when the result
\* is a hit and leaves score alone otherwise; it never changes attempts.
C2_ScoreFollowsResult ==
    [][\A s \in Slots :
          slots'[s].pc = "idle" =>
             /\ Drawn(s) =>
                   /\ score' = ScoreAfter(slots[s].res.result)
                   /\ attempts' = attempts
             /\ Leaves(s, "fetch") =>
                   \A res \in Responses : Answered(s, res) =>
                      /\ score' = ScoreAfter(res.result)
                      /\ attempts' = attempts]_vars

C2_Witness ==
    /\ score >= 20
    /\ scoreMultiplierEl \in Multipliers
    /\ resultEl.kind = "message"
    /\ \A s \in Slots : slots[s].pc = "idle"

\* C3: an animation of N >= 1 samples that is not cancelled draws the indices
\* 0, 1, ..., N-1 in that order, one per frame, each once, and resolves right after
\* drawing index N-1.
C3_FramesInOrder ==
    [][\A s \in Slots :
          /\ Leaves(s, "fetch") =>
                \A res \in Responses : Answered(s, res) =>
                   /\ canvas' = 0
                   /\ IF 1 < res.N
                      THEN /\ slots'[s] = [slots[s] EXCEPT !.pc = "anim", !.res = res, !.i = 1]
                           /\ <<s, 1>> \in frames'
                      ELSE slots'[s].pc = "idle"
          /\ Drawn(s) =>
                LET k == slots[s].i
                    N == slots[s].res.N
                IN  /\ k < N
                    /\ canvas' = k
                    /\ IF k + 1 < N
                       THEN /\ slots'[s] = [slots[s] EXCEPT !.i = k + 1]
                            /\ <<s, k + 1>> \in frames'
                       ELSE slots'[s].pc = "idle"]_vars

C3_Witness ==
    /\ canvas = 2
    /\ resultEl.kind = "missed"
    /\ \A s \in Slots : slots[s].pc = "idle"

C5_ZonesWithinRadius ==
    \A s \in Slots : slots[s].pc = "fetch" => WellFormedTarget(slots[s].payload)

\* C6: after newTarget(expectedRange), 0.4 * expectedRange <= targetX <= 0.8 * expectedRange.
C6_TargetInRange ==
    [][/\ NewTargetClick => InFortyToEighty(targetX', lastSim.range)
       /\ \A s \in Slots : (attempts = 1 /\ Leaves(s, "fetch")) =>
             \A res \in Responses : Answered(s, res) =>
                InFortyToEighty(targetX', res.range)]_vars

\* C7: a Shoot click at attempts >= attemptsMax shows the game-over banner and does
\* nothing else; only a reset brings attempts back under attemptsMax.
C7_GameOverIsInert ==
    [][attempts >= attemptsMax =>
          /\ Shoot =>
                /\ resultEl' = Banner("gameover", 0)
                /\ UNCHANGED <<targetX, attempts, score, animId, lastSim, radiusEl,
                               scoreMultiplierEl, canvas, slots, frames,
                               sentSinceReset, uncaught>>
          /\ attempts' < attemptsMax => Reset]_vars

C7_Witness ==
    /\ attempts >= attemptsMax
    /\ resultEl.kind = "gameover"

\* C8: for every successful response that is not a hit, shoot() completes normally:
\* it shows the miss banner, sets the displayed multiplier to 0, leaves score
\* unchanged and does not end in an uncaught exception.
C8_MissCompletes ==
    [][\A s \in Slots :
          slots'[s].pc = "idle" =>
             /\ (~IsHit(slots[s].res.result) /\ Drawn(s)) =>
                   /\ uncaught' = uncaught
                   /\ score' = score
                   /\ scoreMultiplierEl' = 0
                   /\ resultEl' = MissBanner(slots[s].res)
             /\ Leaves(s, "fetch") =>
                   \A res \in Responses : (~IsHit(res.result) /\ Answered(s, res)) =>
                      /\ uncaught' = uncaught
                      /\ score' = score
                      /\ scoreMultiplierEl' = 0
                      /\ resultEl' = MissBanner(res)]_vars

\* C9: when shoot() applies a shot's result, and while the shot's trajectory is
\* animated, targetX is the target_x that was sent in that shot's request.
C9_ScoredAgainstSentTarget ==
    [][\A s \in Slots :
          /\ slots'[s].pc = "anim" => targetX' = slots'[s].payload.target_x
          /\ slots'[s].pc = "idle" =>
                /\ (slots[s].res.result.present /\ Drawn(s)) =>
                      targetX' = slots[s].payload.target_x
                /\ Leaves(s, "fetch") =>
                      \A res \in Responses : (res.result.present /\ Answered(s, res)) =>
                         targetX' = slots[s].payload.target_x]_vars

====
